---- MODULE Spec2Model ----
(***************************************************************************)
(* Model of the cursor-bound drain primitives of MySQLCodec                *)
(* (source/extensions/filters/network/mysql_proxy/mysql_codec.cc), of its  *)
(* header encoder, of the BufferHelper peek primitives (mysql_utils.h) and *)
(* of the delay timer of the HTTP fault filter (fault_filter.cc) and of    *)
(* the circuit-breaker resources (resource_manager_impl.h).                *)
(*                                                                         *)
(* A codec instance owns the cursor offset_.  The session layer appends    *)
(* the bytes of a wire stream to the buffer as they arrive and calls the   *)
(* drain primitives in any order.  Objects written through copyOut are     *)
(* kept as their byte images (object representation); the host is          *)
(* little-endian, so byte 1 of an image is the least significant byte.     *)
(***************************************************************************)
EXTENDS Integers, Sequences, FiniteSets, TLC

VARIABLES
  wire,     \* the byte stream the peer sends; its bytes arrive one by one
  buffer,   \* Buffer::Instance: the bytes that have arrived so far
  offset_,  \* MySQLCodec::offset_, the instance cursor
  last,     \* the most recent drain call: arguments, outcome and outputs
  enc,      \* the most recent EncodeHdr call: arguments and returned string
  peek,     \* the caller-owned offsets and the most recent peek call
  filter,   \* the FaultFilter instance and what it did to its stream
  resource  \* one ResourceImpl, its gauge and the worker threads using it

vars == <<wire, buffer, offset_, last, enc, peek, filter, resource>>

----------------------------------------------------------------------------
(* Bounds of the model *)

\* longest run of padding bytes in front of a field on the wire
MaxPad == 1
\* largest int passed as width / skip count / string length
MaxWidth == 5
\* the int arguments range over -NegWidth .. MaxWidth
NegWidth == 1
\* the number of offsets the caller of the peek primitives holds
PeekOffsets == 2
\* the most decodeData calls made on one stream
MaxData == 2
\* the number of worker threads that use one resource
Workers == 2
\* the most inc() calls a thread has made and not undone
MaxHeld == 2

----------------------------------------------------------------------------
(* Program constants *)

\* sizeof(int): the destination of BufReadBySizeDrain is an int&
IntBytes == 4

LENENCODINT_1BYTE == 251
LENENCODINT_2BYTES == 252
LENENCODINT_3BYTES == 253
LENENCODINT_8BYTES == 254
\* '\0'
MYSQL_STR_END == 0
\* images of 0x00FFFFFF and 0x000000FF
MYSQL_HDR_PKT_SIZE_MASK == <<255, 255, 255, 0>>
MYSQL_HDR_SEQ_MASK == <<255, 0, 0, 0>>

MYSQL_SUCCESS == "MYSQL_SUCCESS"
MYSQL_FAILURE == "MYSQL_FAILURE"
\* the call did not return: the process was terminated (checked build,
\* sanitizer or stack protector on an out-of-bounds copy)
ABORTED == "ABORTED"
\* the call left through a C++ exception (std::out_of_range)
THROWN == "THROWN"

----------------------------------------------------------------------------
(* Values and their byte images *)

\* the value of an int whose object representation is img (two's complement)
IntOf(img) ==
  img[1] + 256 * img[2] + 65536 * img[3]
    + 16777216 * (IF img[4] >= 128 THEN img[4] - 256 ELSE img[4])

\* the image of an int holding the byte value b (val = byte_val)
IntImg(b) == <<b, 0, 0, 0>>

\* a & m on one byte, for the mask bytes 0x00 and 0xFF
ByteAnd(a, m) == IF m = 255 THEN a ELSE 0

\* x & mask on 32-bit images
And32(x, mask) == [i \in 1..4 |-> ByteAnd(x[i], mask[i])]

\* htonl on the little-endian host: the four bytes are reversed
Htonl(x) == <<x[4], x[3], x[2], x[1]>>

----------------------------------------------------------------------------
(* Buffer::Instance operations used by the codec *)

\* buffer.copyOut(start, size, data): the size bytes from position start
CopyOut(buf, start, size) == SubSeq(buf, start + 1, start + size)

\* the object dest after n = Len(bytes) bytes were copied to its address;
\* bytes beyond the object's width do not land in it
Store(dest, bytes) ==
  [i \in 1..Len(dest) |-> IF i <= Len(bytes) THEN bytes[i] ELSE dest[i]]

\* the bytes of a copy that land behind the destination object
Overrun(dest, bytes) == SubSeq(bytes, Len(dest) + 1, Len(bytes))

\* buffer.search(&c, 1, start): index of the first byte c at or after start,
\* -1 when there is none
Search(buf, c, start) ==
  LET hits == {i \in start..(Len(buf) - 1) : buf[i + 1] = c}
  IN IF hits = {} THEN -1 ELSE CHOOSE i \in hits : \A j \in hits : i <= j

\* std::string(buffer.linearize(n), n): the first n bytes
Linearize(buf, n) == SubSeq(buf, 1, n)

\* buffer.length() < (offset_ + len), an unsigned comparison: a negative sum
\* converts to a value above every buffer length
TooShort(buf, off, len) ==
  IF off + len < 0 THEN TRUE ELSE Len(buf) < off + len

----------------------------------------------------------------------------
(* The drain primitives.  Each takes the buffer, the cursor and the prior  *)
(* content of the caller's output object and yields the set of outcomes    *)
(* [ret, off, val, over]: the returned status, the cursor after the call,  *)
(* the output object after the call and the bytes written behind it.       *)

Outcome(r, o, v, x) == [ret |-> r, off |-> o, val |-> v, over |-> x]

BufUint8Drain(buf, off, prior) ==
  IF Len(buf) < off + 1
    THEN {Outcome(MYSQL_FAILURE, off, prior, <<>>)}
    ELSE {Outcome(MYSQL_SUCCESS, off + 1, Store(prior, CopyOut(buf, off, 1)), <<>>)}

\* BufUint16Drain advancing by sizeof(uint8_t)
BufUint16Drain_AdvanceOne(buf, off, prior) ==
  IF Len(buf) < off + 2
    THEN {Outcome(MYSQL_FAILURE, off, prior, <<>>)}
    ELSE {Outcome(MYSQL_SUCCESS, off + 1, Store(prior, CopyOut(buf, off, 2)), <<>>)}

BufUint16Drain(buf, off, prior) ==
  IF Len(buf) < off + 2
    THEN {Outcome(MYSQL_FAILURE, off, prior, <<>>)}
    ELSE {Outcome(MYSQL_SUCCESS, off + 2, Store(prior, CopyOut(buf, off, 2)), <<>>)}

\* BufUint32Drain advancing by sizeof(uint16_t)
BufUint32Drain_AdvanceTwo(buf, off, prior) ==
  IF Len(buf) < off + 4
    THEN {Outcome(MYSQL_FAILURE, off, prior, <<>>)}
    ELSE {Outcome(MYSQL_SUCCESS, off + 2, Store(prior, CopyOut(buf, off, 4)), <<>>)}

BufUint32Drain(buf, off, prior) ==
  IF Len(buf) < off + 4
    THEN {Outcome(MYSQL_FAILURE, off, prior, <<>>)}
    ELSE {Outcome(MYSQL_SUCCESS, off + 4, Store(prior, CopyOut(buf, off, 4)), <<>>)}

BufUint64Drain(buf, off, prior) ==
  IF Len(buf) < off + 8
    THEN {Outcome(MYSQL_FAILURE, off, prior, <<>>)}
    ELSE {Outcome(MYSQL_SUCCESS, off + 8, Store(prior, CopyOut(buf, off, 8)), <<>>)}

\* copyOut(offset_, len, &val) with an int& val.  A negative len converts to
\* a size beyond the buffer (nothing is copied, or the process is stopped);
\* a len above sizeof(int) writes behind val (or the process is stopped).
BufReadBySizeDrain(buf, off, len, prior) ==
  IF TooShort(buf, off, len)
    THEN {Outcome(MYSQL_FAILURE, off, prior, <<>>)}
    ELSE IF len < 0
      THEN {Outcome(MYSQL_SUCCESS, off + len, prior, <<>>),
            Outcome(ABORTED, off, prior, <<>>)}
      ELSE IF len > IntBytes
        THEN {Outcome(MYSQL_SUCCESS, off + len,
                      Store(prior, CopyOut(buf, off, len)),
                      Overrun(prior, CopyOut(buf, off, len))),
              Outcome(ABORTED, off, prior, <<>>)}
        ELSE {Outcome(MYSQL_SUCCESS, off + len,
                      Store(prior, CopyOut(buf, off, len)), <<>>)}

\* DrainBytes with <= in place of < in its bounds test
DrainBytes_OffByOne(buf, off, skip_bytes) ==
  IF TooShort(buf, off, skip_bytes) \/ Len(buf) = off + skip_bytes
    THEN {Outcome(MYSQL_FAILURE, off, <<>>, <<>>)}
    ELSE {Outcome(MYSQL_SUCCESS, off + skip_bytes, <<>>, <<>>)}

DrainBytes(buf, off, skip_bytes) ==
  IF TooShort(buf, off, skip_bytes)
    THEN {Outcome(MYSQL_FAILURE, off, <<>>, <<>>)}
    ELSE {Outcome(MYSQL_SUCCESS, off + skip_bytes, <<>>, <<>>)}

\* the cursor after BufUint8Drain stays where that call left it on every
\* later return; the test of line 71 reads val, the caller's object
ReadLengthEncodedIntegerDrain(buf, off, prior) ==
  LET m == CHOOSE o \in BufUint8Drain(buf, off, <<0>>) : TRUE
      byte_val == m.val[1]
      size == IF byte_val = LENENCODINT_2BYTES THEN 2
              ELSE IF byte_val = LENENCODINT_3BYTES THEN 3
              ELSE IF byte_val = LENENCODINT_8BYTES THEN 8
              ELSE 0
  IN IF m.ret = MYSQL_FAILURE
       THEN {Outcome(MYSQL_FAILURE, off, prior, <<>>)}
       ELSE IF IntOf(prior) < LENENCODINT_1BYTE
         THEN {Outcome(MYSQL_SUCCESS, m.off, IntImg(byte_val), <<>>)}
         ELSE IF byte_val \notin {LENENCODINT_2BYTES, LENENCODINT_3BYTES,
                                  LENENCODINT_8BYTES}
           THEN {Outcome(MYSQL_FAILURE, m.off, prior, <<>>)}
           ELSE BufReadBySizeDrain(buf, m.off, size, prior)

\* std::string::substr(pos) of a string s; it throws when pos > size()
Substr(s, pos) == SubSeq(s, pos + 1, Len(s))

\* BufStringDrain without str = str.substr(offset_)
BufStringDrain_NoSubstr(buf, off, prior) ==
  LET index == Search(buf, MYSQL_STR_END, off)
  IN IF index = -1
       THEN {Outcome(MYSQL_FAILURE, off, prior, <<>>)}
       ELSE {Outcome(MYSQL_SUCCESS, index + 1, Linearize(buf, index), <<>>)}

BufStringDrain(buf, off, prior) ==
  LET index == Search(buf, MYSQL_STR_END, off)
  IN IF index = -1
       THEN {Outcome(MYSQL_FAILURE, off, prior, <<>>)}
       ELSE IF Len(buf) < index + 1
         THEN {Outcome(MYSQL_FAILURE, off, prior, <<>>)}
         ELSE IF off > index
           THEN {Outcome(THROWN, off, Linearize(buf, index), <<>>)}
           ELSE {Outcome(MYSQL_SUCCESS, index + 1,
                         Substr(Linearize(buf, index), off), <<>>)}

\* BufStringDrainBySize without str = str.substr(offset_)
BufStringDrainBySize_NoSubstr(buf, off, len, prior) ==
  IF TooShort(buf, off, len)
    THEN {Outcome(MYSQL_FAILURE, off, prior, <<>>)}
    ELSE {Outcome(MYSQL_SUCCESS, off + len, Linearize(buf, len + off), <<>>)}

BufStringDrainBySize(buf, off, len, prior) ==
  IF TooShort(buf, off, len)
    THEN {Outcome(MYSQL_FAILURE, off, prior, <<>>)}
    ELSE IF off > len + off
      THEN {Outcome(THROWN, off, Linearize(buf, len + off), <<>>)}
      ELSE {Outcome(MYSQL_SUCCESS, off + len,
                    Substr(Linearize(buf, len + off), off), <<>>)}

\* HdrReadDrain masking the sequence out of val without htonl
HdrReadDrain_NoSwap(buf, off, prior) ==
  LET r == CHOOSE o \in BufUint32Drain(buf, off, <<0, 0, 0, 0>>) : TRUE
      seq == IntOf(And32(r.val, MYSQL_HDR_SEQ_MASK))
      len == IntOf(And32(r.val, MYSQL_HDR_PKT_SIZE_MASK))
  IN IF r.ret # MYSQL_SUCCESS
       THEN {Outcome(MYSQL_FAILURE, off, prior, <<>>)}
       ELSE {Outcome(MYSQL_SUCCESS, r.off, <<len, seq>>, <<>>)}

\* the outputs are the pair <<len, seq>>
HdrReadDrain(buf, off, prior) ==
  LET r == CHOOSE o \in BufUint32Drain(buf, off, <<0, 0, 0, 0>>) : TRUE
      seq == IntOf(And32(Htonl(r.val), MYSQL_HDR_SEQ_MASK))
      len == IntOf(And32(r.val, MYSQL_HDR_PKT_SIZE_MASK))
  IN IF r.ret # MYSQL_SUCCESS
       THEN {Outcome(MYSQL_FAILURE, off, prior, <<>>)}
       ELSE {Outcome(MYSQL_SUCCESS, r.off, <<len, seq>>, <<>>)}

\* EndOfBuffer with >= in place of ==
EndOfBuffer_AtLeast(buf, off) == Len(buf) >= off

\* bool EndOfBuffer(buffer)
EndOfBuffer(buf, off) == Len(buf) = off

\* ClientSwitchResponse::Decode: the bytes from the cursor to the end of the
\* buffer are the plugin response, and they are consumed
SwitchRespDecode(buf, off, prior) ==
  {Outcome(MYSQL_SUCCESS, Len(buf), SubSeq(buf, off + 1, Len(buf)), <<>>)}

----------------------------------------------------------------------------
(* The positions of the buffer a drain call asks the buffer to read *)

\* buffer.copyOut(start, size, data); a negative int converts to a size
\* that reaches beyond every buffer
CopyOutReads(buf, start, size) ==
  IF size < 0 THEN start..Len(buf) ELSE start..(start + size - 1)

\* buffer.search(&c, 1, start) looks at the bytes from start on
SearchReads(buf, start) == start..(Len(buf) - 1)

\* buffer.linearize(n) reads the first n bytes
LinearizeReads(n) == 0..(n - 1)

FixedReads(buf, off, w) ==
  IF Len(buf) < off + w THEN {} ELSE CopyOutReads(buf, off, w)

SizedReads(buf, off, len) ==
  IF TooShort(buf, off, len) THEN {} ELSE CopyOutReads(buf, off, len)

LenencReads(buf, off, prior) ==
  LET byte_val == buf[off + 1]
      size == IF byte_val = LENENCODINT_2BYTES THEN 2
              ELSE IF byte_val = LENENCODINT_3BYTES THEN 3
              ELSE IF byte_val = LENENCODINT_8BYTES THEN 8
              ELSE 0
  IN IF Len(buf) < off + 1 THEN {}
     ELSE IF IntOf(prior) < LENENCODINT_1BYTE \/ size = 0 THEN {off}
     ELSE {off} \cup SizedReads(buf, off + 1, size)

StringReads(buf, off) ==
  LET index == Search(buf, MYSQL_STR_END, off)
  IN IF index = -1 THEN SearchReads(buf, off)
     ELSE SearchReads(buf, off) \cup LinearizeReads(index)

StringBySizeReads(buf, off, len) ==
  IF TooShort(buf, off, len) THEN {} ELSE LinearizeReads(len + off)

Reads(op, buf, off, arg, prior) ==
  CASE op \in {"BufUint8Drain", "BufUint16Drain", "BufUint32Drain",
               "BufUint64Drain", "HdrReadDrain"} -> FixedReads(buf, off, arg)
    [] op = "BufReadBySizeDrain" -> SizedReads(buf, off, arg)
    [] op = "ReadLengthEncodedIntegerDrain" -> LenencReads(buf, off, prior)
    [] op = "BufStringDrain" -> StringReads(buf, off)
    [] op = "BufStringDrainBySize" -> StringBySizeReads(buf, off, arg)
    [] OTHER -> {}

----------------------------------------------------------------------------
(* The header encoder *)

\* MySQLHeader: the image of bits after fields.length = length (24 bits) and
\* fields.seq = seq (8 bits); length fills the three low-order bytes
MySQLHeader(length, seq) ==
  << length % 256, (length \div 256) % 256, (length \div 65536) % 256,
     seq % 256 >>

\* BufUint32Add(buffer, val): the four bytes of val are added to the buffer
BufUint32Add(buf, val) == buf \o val

\* BufToString returning one byte less than the buffer holds
BufToString_ShortByOne(buf) == Linearize(buf, Len(buf) - 1)

\* std::string(buffer.linearize(buffer.length()), buffer.length())
BufToString(buf) == Linearize(buf, Len(buf))

\* EncodeHdr taking the length after the header was put in front
EncodeHdr_LengthWithHeader(cmd_str, seq) ==
  LET e_string == BufToString(BufUint32Add(<<>>,
                     MySQLHeader(Len(cmd_str) + 4, seq)))
  IN e_string \o cmd_str

EncodeHdr(cmd_str, seq) ==
  LET mysqlhdr == MySQLHeader(Len(cmd_str), seq)
      e_string == BufToString(BufUint32Add(<<>>, mysqlhdr))
  IN e_string \o cmd_str

----------------------------------------------------------------------------
(* The inputs: wire streams, int arguments, prior output contents *)

\* the body of a length-encoded integer: 300 in two or three bytes, then
\* zeros
LenencBody == <<44, 1, 0, 0, 0, 0, 0, 0>>

\* a packet: header (length 5, sequence 1), "AB", a terminator, one more
\* byte; read as eight bytes its high-order half is not zero
Packet == <<5, 0, 0, 1, 65, 66, 0, 44>>

\* first bytes of a length-encoded integer: the one-byte value 250 and the
\* markers 0xFB .. 0xFF
Markers == {250, 251, 252, 253, 254, 255}

RECURSIVE Pad(_)
\* n bytes in front of a field
Pad(n) == IF n = 0 THEN <<>> ELSE <<65>> \o Pad(n - 1)

Wires ==
  {Pad(n) \o Packet : n \in 0..MaxPad}
    \cup {Pad(n) \o <<LENENCODINT_8BYTES>> \o Packet : n \in 0..MaxPad}
    \cup {Pad(n) \o <<m>> \o LenencBody : n \in 0..MaxPad, m \in Markers}

\* the int arguments of BufReadBySizeDrain, DrainBytes, BufStringDrainBySize
Widths == (0 - NegWidth)..MaxWidth

\* prior contents of an int output: 0, 300, 65536, -1
PriorInts == { <<0, 0, 0, 0>>, <<44, 1, 0, 0>>, <<0, 0, 1, 0>>,
               <<255, 255, 255, 255>> }

\* prior contents of the int output of a direct BufReadBySizeDrain call:
\* 0 and -1
PriorSized == { <<0, 0, 0, 0>>, <<255, 255, 255, 255>> }

\* prior contents of a w-byte unsigned output: 0 and 0xAA..AA
PriorUints(w) == { [i \in 1..w |-> 0], [i \in 1..w |-> 170] }

\* prior content of a std::string output: "Z"
PriorStrs == { <<90>> }

\* prior contents of the outputs <<len, seq>> of HdrReadDrain
PriorHdrs == { <<0, 0>>, <<7, 9>> }

----------------------------------------------------------------------------
(* The state machine *)

NoCall ==
  [op |-> "none", arg |-> 0, pre |-> 0, blen |-> 0, prior |-> <<>>,
   ret |-> MYSQL_SUCCESS, val |-> <<>>, over |-> <<>>,
   first |-> -1, prior0 |-> <<>>]

\* no EncodeHdr call made yet
NoEnc == [cmd_str |-> <<>>, seq |-> 0, e_string |-> <<>>, done |-> FALSE]

\* no peek call made yet, the caller's offsets at 0
NoPeek ==
  [offs |-> [k \in 1..PeekOffsets |-> 0], op |-> "none", which |-> 0, arg |-> 0,
   ret |-> MYSQL_SUCCESS, val |-> <<>>]

\* no filter on the stream
NoFilter == [phase |-> "none"]

\* no resource manager constructed
NoResource == [phase |-> "none"]

Init ==
  /\ wire \in Wires
  /\ buffer = <<>>
  /\ offset_ = 0
  /\ last = NoCall
  /\ enc = NoEnc
  /\ peek = NoPeek
  /\ filter = NoFilter
  /\ resource = NoResource

\* the process is running: no call has stopped it
Running == last.ret # ABORTED

\* the call repeats the failed call before it, with the same arguments and
\* the output object as that call left it
IsRetry(op, arg, prior) ==
  /\ last.op = op
  /\ last.arg = arg
  /\ last.ret = MYSQL_FAILURE
  /\ last.val = prior

\* commit the outcome o of the call op(arg) made with output content prior
Call(op, arg, prior, o) ==
  /\ offset_' = o.off
  /\ last' = [op |-> op, arg |-> arg, pre |-> offset_, blen |-> Len(buffer),
              prior |-> prior, ret |-> o.ret, val |-> o.val, over |-> o.over,
              first |-> IF IsRetry(op, arg, prior)
                          THEN (IF last.first # -1 THEN last.first ELSE last.pre)
                          ELSE -1,
              prior0 |-> IF IsRetry(op, arg, prior) THEN last.prior0 ELSE prior]
  /\ UNCHANGED <<wire, buffer, enc, peek, filter, resource>>

\* the I/O layer appends the next byte of the stream to the buffer; the
\* record of a call that returned is dropped, the one of a failed call is
\* kept for the retry
BufferAdd ==
  /\ Running
  /\ Len(buffer) < Len(wire)
  /\ buffer' = Append(buffer, wire[Len(buffer) + 1])
  /\ last' = IF last.ret = MYSQL_FAILURE THEN last ELSE NoCall
  /\ UNCHANGED <<wire, offset_, enc, peek, filter, resource>>

DoBufUint8Drain ==
  /\ Running
  /\ \E prior \in PriorUints(1) :
       \E o \in BufUint8Drain(buffer, offset_, prior) :
         Call("BufUint8Drain", 1, prior, o)

DoBufUint16Drain ==
  /\ Running
  /\ \E prior \in PriorUints(2) :
       \E o \in BufUint16Drain(buffer, offset_, prior) :
         Call("BufUint16Drain", 2, prior, o)

DoBufUint32Drain ==
  /\ Running
  /\ \E prior \in PriorUints(4) :
       \E o \in BufUint32Drain(buffer, offset_, prior) :
         Call("BufUint32Drain", 4, prior, o)

DoBufUint64Drain ==
  /\ Running
  /\ \E prior \in PriorUints(8) :
       \E o \in BufUint64Drain(buffer, offset_, prior) :
         Call("BufUint64Drain", 8, prior, o)

DoBufReadBySizeDrain ==
  /\ Running
  /\ \E len \in Widths, prior \in PriorSized :
       \E o \in BufReadBySizeDrain(buffer, offset_, len, prior) :
         Call("BufReadBySizeDrain", len, prior, o)

DoDrainBytes ==
  /\ Running
  /\ \E skip_bytes \in Widths :
       \E o \in DrainBytes(buffer, offset_, skip_bytes) :
         Call("DrainBytes", skip_bytes, <<>>, o)

DoReadLengthEncodedIntegerDrain ==
  /\ Running
  /\ \E prior \in PriorInts :
       \E o \in ReadLengthEncodedIntegerDrain(buffer, offset_, prior) :
         Call("ReadLengthEncodedIntegerDrain", 0, prior, o)

DoBufStringDrain ==
  /\ Running
  /\ \E prior \in PriorStrs :
       \E o \in BufStringDrain(buffer, offset_, prior) :
         Call("BufStringDrain", 0, prior, o)

DoBufStringDrainBySize ==
  /\ Running
  /\ \E len \in Widths, prior \in PriorStrs :
       \E o \in BufStringDrainBySize(buffer, offset_, len, prior) :
         Call("BufStringDrainBySize", len, prior, o)

DoHdrReadDrain ==
  /\ Running
  /\ \E prior \in PriorHdrs :
       \E o \in HdrReadDrain(buffer, offset_, prior) :
         Call("HdrReadDrain", 4, prior, o)

DoEndOfBuffer ==
  /\ Running
  /\ Call("EndOfBuffer", 0, <<>>,
          Outcome(IF EndOfBuffer(buffer, offset_) THEN "true" ELSE "false",
                  offset_, <<>>, <<>>))

\* Decode of a ClientSwitchResponse; when the call before it read a packet
\* header, arg is the cursor at which that header starts and prior holds
\* the header's <<len, seq>>, otherwise arg is -1
DoSwitchRespDecode ==
  /\ Running
  /\ LET hdr == last.op = "HdrReadDrain" /\ last.ret = MYSQL_SUCCESS
     IN \E o \in SwitchRespDecode(buffer, offset_, <<>>) :
          Call("ClientSwitchResponse::Decode",
               IF hdr THEN last.pre ELSE -1,
               IF hdr THEN last.val ELSE <<>>, o)

Next ==
  \/ BufferAdd
  \/ DoBufUint8Drain
  \/ DoBufUint16Drain
  \/ DoBufUint32Drain
  \/ DoBufUint64Drain
  \/ DoBufReadBySizeDrain
  \/ DoDrainBytes
  \/ DoReadLengthEncodedIntegerDrain
  \/ DoBufStringDrain
  \/ DoBufStringDrainBySize
  \/ DoHdrReadDrain
  \/ DoEndOfBuffer
  \/ DoSwitchRespDecode

Spec == Init /\ [][Next]_vars

TypeOK ==
  /\ wire \in Wires
  /\ offset_ \in Int
  /\ Len(buffer) <= Len(wire)

----------------------------------------------------------------------------
(* Vocabulary of the properties *)

\* the buffer as it was when the last call was made (the buffer only grows)
BufAtCall == SubSeq(buffer, 1, last.blen)

\* the outcomes of the drain operation named op
Eval(op, buf, off, arg, prior) ==
  CASE op = "BufUint8Drain" -> BufUint8Drain(buf, off, prior)
    [] op = "BufUint16Drain" -> BufUint16Drain(buf, off, prior)
    [] op = "BufUint32Drain" -> BufUint32Drain(buf, off, prior)
    [] op = "BufUint64Drain" -> BufUint64Drain(buf, off, prior)
    [] op = "BufReadBySizeDrain" -> BufReadBySizeDrain(buf, off, arg, prior)
    [] op = "DrainBytes" -> DrainBytes(buf, off, arg)
    [] op = "ReadLengthEncodedIntegerDrain" ->
         ReadLengthEncodedIntegerDrain(buf, off, prior)
    [] op = "BufStringDrain" -> BufStringDrain(buf, off, prior)
    [] op = "BufStringDrainBySize" -> BufStringDrainBySize(buf, off, arg, prior)
    [] op = "HdrReadDrain" -> HdrReadDrain(buf, off, prior)

FixedOps == {"BufUint8Drain", "BufUint16Drain", "BufUint32Drain", "BufUint64Drain"}

SizedOps == FixedOps \cup {"BufReadBySizeDrain", "DrainBytes", "BufStringDrainBySize"}

ResumableOps ==
  FixedOps \cup {"BufReadBySizeDrain", "ReadLengthEncodedIntegerDrain",
                 "BufStringDrain", "BufStringDrainBySize", "HdrReadDrain"}

\* the last call was ReadLengthEncodedIntegerDrain with a byte at the cursor
LenencCall ==
  /\ last.op = "ReadLengthEncodedIntegerDrain"
  /\ last.blen > last.pre

\* the marker byte the last call found at the cursor
MarkerAtCall == BufAtCall[last.pre + 1]

\* the number of body bytes the marker stands for
BodySize(m) ==
  IF m = LENENCODINT_2BYTES THEN 2
  ELSE IF m = LENENCODINT_3BYTES THEN 3
  ELSE IF m = LENENCODINT_8BYTES THEN 8
  ELSE 0

\* byte i of the value a call delivered, zero above the object's width
ValByte(i) == IF i <= Len(last.val) THEN last.val[i] ELSE 0

----------------------------------------------------------------------------
(* C1: resumability.  A drain call that failed on a truncated buffer and   *)
(* is invoked again on the same instance once the buffer holds the whole   *)
(* field succeeds, with the value and final cursor of one call made on the *)
(* complete buffer from the cursor of the first attempt.                   *)
C1_Resumable ==
  ( /\ last.op \in ResumableOps
    /\ last.first # -1
    /\ \E o \in Eval(last.op, BufAtCall, last.first, last.arg, last.prior0) :
         o.ret = MYSQL_SUCCESS )
  => /\ last.ret = MYSQL_SUCCESS
     /\ \E o \in Eval(last.op, BufAtCall, last.first, last.arg, last.prior0) :
          /\ o.ret = MYSQL_SUCCESS
          /\ o.val = last.val
          /\ o.off = offset_

(* C2: a failed ReadLengthEncodedIntegerDrain leaves the cursor where it   *)
(* was before the call.                                                    *)
C2_FailedLenencKeepsCursor ==
  (last.op = "ReadLengthEncodedIntegerDrain" /\ last.ret = MYSQL_FAILURE)
    => offset_ = last.pre

(* C3: a drain of a non-negative width w fails exactly when the buffer is  *)
(* shorter than cursor + w; a failed call leaves cursor and output as they *)
(* were, and the same call repeated on the same buffer fails again and     *)
(* leaves the same state.                                                  *)
C3_FailsIffShort ==
  (last.op \in SizedOps /\ last.arg >= 0)
    => /\ (last.ret = MYSQL_FAILURE) <=> (last.blen < last.pre + last.arg)
       /\ last.ret = MYSQL_FAILURE
            => /\ offset_ = last.pre
               /\ last.val = last.prior
               /\ \A o \in Eval(last.op, BufAtCall, offset_, last.arg, last.val) :
                    /\ o.ret = MYSQL_FAILURE
                    /\ o.off = offset_
                    /\ o.val = last.val

\* a three-byte read failed twice in a row one byte short of its field
C3_Witness ==
  /\ last.op = "BufReadBySizeDrain"
  /\ last.arg = 3
  /\ last.ret = MYSQL_FAILURE
  /\ last.first # -1
  /\ last.blen = last.pre + 2

(* C4: a fixed-width drain of w bytes that finds w bytes from the cursor   *)
(* succeeds, its value has exactly the bytes at cursor .. cursor+w-1 as    *)
(* its little-endian encoding (byte i of the value's image is the byte at  *)
(* cursor+i-1) and the cursor advances by w; DrainBytes(n), n >= 0, with n *)
(* bytes from the cursor advances the cursor by n and produces no value.   *)
C4_FixedDrainValue ==
  /\ (last.op \in FixedOps /\ last.blen >= last.pre + last.arg)
       => /\ last.ret = MYSQL_SUCCESS
          /\ Len(last.val) = last.arg
          /\ \A i \in 1..last.arg : last.val[i] = BufAtCall[last.pre + i]
          /\ offset_ = last.pre + last.arg
  /\ (last.op = "DrainBytes" /\ last.arg >= 0 /\ last.blen >= last.pre + last.arg)
       => /\ last.ret = MYSQL_SUCCESS
          /\ offset_ = last.pre + last.arg
          /\ last.val = <<>>

\* an eight-byte read from cursor 1 delivered a value with a non-zero top byte
C4_Witness ==
  /\ last.op = "BufUint64Drain"
  /\ last.ret = MYSQL_SUCCESS
  /\ last.pre = 1
  /\ last.val[8] # 0

(* C5: the cursor never decreases and, after a successful call, is at most *)
(* the buffer's length, for every int argument of the drain calls.         *)
C5_CursorMonotone ==
  [][ /\ offset_' >= offset_
      /\ last'.ret = MYSQL_SUCCESS => offset_' <= Len(buffer') ]_vars

(* C6: ReadLengthEncodedIntegerDrain on a marker m < 251 succeeds with     *)
(* value m and advances the cursor by 1, whatever the output held before.  *)
C6_OneByteLenenc ==
  (LenencCall /\ MarkerAtCall < LENENCODINT_1BYTE)
    => /\ last.ret = MYSQL_SUCCESS
       /\ last.val = IntImg(MarkerAtCall)
       /\ offset_ = last.pre + 1

(* C7: ReadLengthEncodedIntegerDrain on marker 0xFC, 0xFD or 0xFE followed *)
(* by its 2, 3 or 8 body bytes succeeds, delivers the little-endian value  *)
(* of the body bytes and advances the cursor by 3, 4 or 9, whatever the    *)
(* output held before.                                                     *)
C7_MultiByteLenenc ==
  ( /\ LenencCall
    /\ BodySize(MarkerAtCall) > 0
    /\ last.blen >= last.pre + 1 + BodySize(MarkerAtCall) )
  => /\ last.ret = MYSQL_SUCCESS
     /\ \A i \in 1..8 :
          ValByte(i) = IF i <= BodySize(MarkerAtCall)
                         THEN BufAtCall[last.pre + 1 + i] ELSE 0
     /\ offset_ = last.pre + 1 + BodySize(MarkerAtCall)

(* C8: ReadLengthEncodedIntegerDrain fails on the markers 0xFB and 0xFF,   *)
(* whatever the output held before.                                        *)
C8_BadMarkerFails ==
  ( /\ LenencCall
    /\ MarkerAtCall >= LENENCODINT_1BYTE
    /\ BodySize(MarkerAtCall) = 0 )
  => last.ret = MYSQL_FAILURE

(* C9: a variable-width read of more bytes than its destination holds is   *)
(* guarded: it is rejected or delivers every requested byte as the value,  *)
(* and no byte is written behind the destination.                          *)
C9_WideReadGuarded ==
  ( \/ /\ last.op = "BufReadBySizeDrain"
       /\ last.arg > IntBytes
       /\ last.blen >= last.pre + last.arg
    \/ /\ LenencCall
       /\ MarkerAtCall = LENENCODINT_8BYTES
       /\ last.blen >= last.pre + 1 + 8 )
  => /\ last.over = <<>>
     /\ \/ last.ret = MYSQL_FAILURE
        \/ /\ last.ret = MYSQL_SUCCESS
           /\ last.val = SubSeq(BufAtCall, offset_ - Len(last.val) + 1, offset_)
           /\ Len(last.val) > IntBytes

(* C10: HdrReadDrain with 4 bytes from the cursor succeeds with length =   *)
(* the little-endian value of the first three bytes and sequence = the     *)
(* fourth byte and advances the cursor by 4; with fewer bytes it fails and *)
(* leaves cursor, length and sequence as they were.                        *)
C10_HdrReadDrain ==
  last.op = "HdrReadDrain"
    => IF last.blen >= last.pre + 4
         THEN /\ last.ret = MYSQL_SUCCESS
              /\ last.val = << BufAtCall[last.pre + 1]
                                 + 256 * BufAtCall[last.pre + 2]
                                 + 65536 * BufAtCall[last.pre + 3],
                               BufAtCall[last.pre + 4] >>
              /\ offset_ = last.pre + 4
         ELSE /\ last.ret = MYSQL_FAILURE
              /\ last.val = last.prior
              /\ offset_ = last.pre

\* the header 05 00 00 01 read from cursor 0 gave length 5, sequence 1
C10_Witness ==
  /\ last.op = "HdrReadDrain"
  /\ last.pre = 0
  /\ last.ret = MYSQL_SUCCESS
  /\ SubSeq(BufAtCall, 1, 4) = <<5, 0, 0, 1>>
  /\ last.val = <<5, 1>>
  /\ offset_ = 4

----------------------------------------------------------------------------
(* The header encoder: a packet is encoded, written to an empty buffer and *)
(* its header read back from cursor 0.                                     *)

\* the payload lengths, on both sides of the carries into the second and
\* third length byte
PayloadLens == {0, 1, 5, 255, 256, 300, 65536}

\* a payload of n bytes, none of them 0x00
Payload(n) == [i \in 1..n |-> 65 + (i % 7)]

\* the sequence numbers
Seqs == {0, 1, 127, 128, 255}

InitEnc ==
  /\ wire = <<>>
  /\ buffer = <<>>
  /\ offset_ = 0
  /\ last = NoCall
  /\ enc = NoEnc
  /\ peek = NoPeek
  /\ filter = NoFilter
  /\ resource = NoResource

DoEncodeHdr ==
  /\ ~enc.done
  /\ \E n \in PayloadLens, seq \in Seqs :
       enc' = [cmd_str |-> Payload(n), seq |-> seq,
               e_string |-> EncodeHdr(Payload(n), seq), done |-> TRUE]
  /\ UNCHANGED <<wire, buffer, offset_, last, peek, filter, resource>>

\* the caller puts the encoded packet into a buffer
BufferAddString ==
  /\ enc.done
  /\ buffer = <<>>
  /\ buffer' = buffer \o enc.e_string
  /\ last' = IF last.ret = MYSQL_FAILURE THEN last ELSE NoCall
  /\ UNCHANGED <<wire, offset_, enc, peek, filter, resource>>

\* the header is read at the start of the buffer
HdrReadDrainAtStart == offset_ = 0 /\ DoHdrReadDrain

NextEnc ==
  \/ DoEncodeHdr
  \/ BufferAddString
  \/ HdrReadDrainAtStart

SpecEnc == InitEnc /\ [][NextEnc]_vars

(* C11: header round trip.  HdrReadDrain from cursor 0 on the output of    *)
(* EncodeHdr(payload of L bytes, s) succeeds and returns exactly (L, s).   *)
C11_HdrRoundTrip ==
  ( /\ last.op = "HdrReadDrain"
    /\ last.pre = 0
    /\ enc.done
    /\ last.blen = Len(enc.e_string)
    /\ buffer = enc.e_string )
  => /\ last.ret = MYSQL_SUCCESS
     /\ last.val = <<Len(enc.cmd_str), enc.seq>>

\* a header of a 65536-byte payload with sequence 255 was read back over
\* other contents of len and seq
C11_Witness ==
  /\ last.op = "HdrReadDrain"
  /\ last.ret = MYSQL_SUCCESS
  /\ last.prior = <<7, 9>>
  /\ last.val = <<65536, 255>>
  /\ buffer = enc.e_string

(* C12: EncodeHdr(payload, seq) returns 4 + len(payload) bytes: the length *)
(* in little-endian order in the first three, seq in the fourth, then the  *)
(* payload bytes unchanged and in order.                                   *)
C12_EncodeHdrLayout ==
  enc.done
    => /\ Len(enc.e_string) = 4 + Len(enc.cmd_str)
       /\ enc.e_string[1] + 256 * enc.e_string[2] + 65536 * enc.e_string[3]
            = Len(enc.cmd_str)
       /\ \A i \in 1..3 : enc.e_string[i] \in 0..255
       /\ enc.e_string[4] = enc.seq
       /\ SubSeq(enc.e_string, 5, Len(enc.e_string)) = enc.cmd_str

\* a 300-byte payload was encoded with sequence 128: header 2C 01 00 80
C12_Witness ==
  /\ enc.done
  /\ Len(enc.cmd_str) = 300
  /\ SubSeq(enc.e_string, 1, 4) = <<44, 1, 0, 128>>
  /\ Len(enc.e_string) = 304

----------------------------------------------------------------------------
(* Properties of the string drains, EndOfBuffer, the switch response and   *)
(* the buffer accesses, under Spec                                         *)

\* the positions at or after the cursor of the last call that held 0x00
ZerosAtCall == {i \in last.pre..(last.blen - 1) : BufAtCall[i + 1] = MYSQL_STR_END}

(* C13: BufStringDrain from cursor c.  With a 0x00 byte at or after c it   *)
(* succeeds, the string is the bytes from c up to the first such byte and  *)
(* the cursor is one past it; without one it fails and leaves the cursor   *)
(* and the string as they were.                                            *)
C13_BufStringDrain ==
  last.op = "BufStringDrain"
    => IF ZerosAtCall # {}
         THEN /\ last.ret = MYSQL_SUCCESS
              /\ \E z \in ZerosAtCall :
                   /\ \A j \in ZerosAtCall : z <= j
                   /\ last.val = SubSeq(BufAtCall, last.pre + 1, z)
                   /\ offset_ = z + 1
         ELSE /\ last.ret = MYSQL_FAILURE
              /\ last.val = last.prior
              /\ offset_ = last.pre

\* a string of two or more bytes was read from a cursor other than 0
C13_Witness ==
  /\ last.op = "BufStringDrain"
  /\ last.ret = MYSQL_SUCCESS
  /\ last.pre >= 1
  /\ Len(last.val) >= 2

(* C14: BufStringDrainBySize(N), N >= 0, from cursor c fails unless N      *)
(* bytes remain from c; on success the string is the N bytes at c..c+N-1   *)
(* and the cursor is c + N.                                                *)
C14_BufStringDrainBySize ==
  (last.op = "BufStringDrainBySize" /\ last.arg >= 0)
    => /\ last.blen < last.pre + last.arg => last.ret = MYSQL_FAILURE
       /\ last.ret = MYSQL_SUCCESS
            => /\ Len(last.val) = last.arg
               /\ last.val = SubSeq(BufAtCall, last.pre + 1, last.pre + last.arg)
               /\ offset_ = last.pre + last.arg

\* the two bytes "AB" were read from a cursor other than 0
C14_Witness ==
  /\ last.op = "BufStringDrainBySize"
  /\ last.ret = MYSQL_SUCCESS
  /\ last.pre >= 1
  /\ last.val = <<65, 66>>

(* C15: EndOfBuffer returns true exactly when the cursor equals the        *)
(* buffer's length, and the call changes neither the cursor nor the        *)
(* buffer.                                                                 *)
C15_EndOfBuffer ==
  [][ last'.op = "EndOfBuffer"
        => /\ (last'.ret = "true") <=> (offset_ = Len(buffer))
           /\ offset_' = offset_
           /\ buffer' = buffer ]_vars

\* EndOfBuffer returned true after three bytes were drained
C15_Witness ==
  /\ last.op = "EndOfBuffer"
  /\ last.ret = "true"
  /\ offset_ = 3

(* C16: decoding a switch response after the packet header takes every     *)
(* byte behind the header up to the end of the buffer as the plugin        *)
(* response, the cursor then equals the buffer's length and EndOfBuffer    *)
(* reports true.                                                           *)
C16_SwitchRespDecode ==
  (last.op = "ClientSwitchResponse::Decode" /\ last.arg >= 0)
    => /\ last.ret = MYSQL_SUCCESS
       /\ last.val = SubSeq(BufAtCall, last.arg + 5, last.blen)
       /\ offset_ = Len(buffer)
       /\ EndOfBuffer(buffer, offset_)

\* 05 00 00 01 41 42: header (5, 1), response "AB", EndOfBuffer true
C16_Witness ==
  /\ last.op = "ClientSwitchResponse::Decode"
  /\ last.arg = 0
  /\ buffer = <<5, 0, 0, 1, 65, 66>>
  /\ last.prior = <<5, 1>>
  /\ last.val = <<65, 66>>
  /\ EndOfBuffer(buffer, offset_)

\* the calls that read the buffer
ReadingOps ==
  ResumableOps \cup {"DrainBytes", "EndOfBuffer"}

----------------------------------------------------------------------------
(* The BufferHelper peek primitives: static functions that read at an      *)
(* offset the caller passes by reference.  The caller holds two offsets    *)
(* over the buffer a codec instance drains.                                *)

peekUint8(buf, offset, prior) ==
  IF Len(buf) < offset + 1
    THEN {Outcome(MYSQL_FAILURE, offset, prior, <<>>)}
    ELSE {Outcome(MYSQL_SUCCESS, offset + 1,
                  Store(prior, CopyOut(buf, offset, 1)), <<>>)}

peekUint16(buf, offset, prior) ==
  IF Len(buf) < offset + 2
    THEN {Outcome(MYSQL_FAILURE, offset, prior, <<>>)}
    ELSE {Outcome(MYSQL_SUCCESS, offset + 2,
                  Store(prior, CopyOut(buf, offset, 2)), <<>>)}

peekBytes(buf, offset, skip_bytes) ==
  IF TooShort(buf, offset, skip_bytes)
    THEN {Outcome(MYSQL_FAILURE, offset, <<>>, <<>>)}
    ELSE {Outcome(MYSQL_SUCCESS, offset + skip_bytes, <<>>, <<>>)}

peekString(buf, offset, prior) ==
  LET index == Search(buf, MYSQL_STR_END, offset)
  IN IF index = -1
       THEN {Outcome(MYSQL_FAILURE, offset, prior, <<>>)}
       ELSE {Outcome(MYSQL_SUCCESS, index + 1,
                     SubSeq(buf, offset + 1, index), <<>>)}

\* a peek call that keeps its position in the codec instance's cursor
PeekCall_SharedCursor(op, k, arg, o) ==
  /\ peek' = [offs |-> [peek.offs EXCEPT ![k] = o.off], op |-> op,
              which |-> k, arg |-> arg, ret |-> o.ret, val |-> o.val]
  /\ offset_' = o.off
  /\ UNCHANGED <<wire, buffer, last, enc, filter, resource>>

\* commit the outcome o of the peek call op(arg) made with the caller's
\* k-th offset
PeekCall(op, k, arg, o) ==
  /\ peek' = [offs |-> [peek.offs EXCEPT ![k] = o.off], op |-> op,
              which |-> k, arg |-> arg, ret |-> o.ret, val |-> o.val]
  /\ UNCHANGED <<wire, buffer, offset_, last, enc, filter, resource>>

DoPeekUint8 ==
  \E k \in 1..PeekOffsets :
    \E o \in peekUint8(buffer, peek.offs[k], <<170>>) :
      PeekCall("peekUint8", k, 1, o)

DoPeekUint16 ==
  \E k \in 1..PeekOffsets :
    \E o \in peekUint16(buffer, peek.offs[k], <<170, 170>>) :
      PeekCall("peekUint16", k, 2, o)

DoPeekBytes ==
  \E k \in 1..PeekOffsets, skip_bytes \in 1..2 :
    \E o \in peekBytes(buffer, peek.offs[k], skip_bytes) :
      PeekCall("peekBytes", k, skip_bytes, o)

DoPeekString ==
  \E k \in 1..PeekOffsets :
    \E o \in peekString(buffer, peek.offs[k], <<90>>) :
      PeekCall("peekString", k, 0, o)

\* the whole packet 05 00 00 01 41 42 has arrived
InitPeek ==
  /\ wire = SubSeq(Packet, 1, 6)
  /\ buffer = wire
  /\ offset_ = 0
  /\ last = NoCall
  /\ enc = NoEnc
  /\ peek = NoPeek
  /\ filter = NoFilter
  /\ resource = NoResource

NextPeek ==
  \/ DoBufUint8Drain
  \/ DoBufUint16Drain
  \/ DoBufStringDrain
  \/ DoHdrReadDrain
  \/ DoPeekUint8
  \/ DoPeekUint16
  \/ DoPeekBytes
  \/ DoPeekString

SpecPeek == InitPeek /\ [][NextPeek]_vars

(* C18: a peek call works on the offset the caller passed only: it leaves  *)
(* the instance cursor, the results of the drain calls, the buffer and the *)
(* caller's other offsets as they were, so the drain calls run as they     *)
(* would without the peeks.                                                *)
C18_PeekFrame ==
  [][ peek' # peek
        => /\ offset_' = offset_
           /\ last' = last
           /\ buffer' = buffer
           /\ \A k \in 1..PeekOffsets :
                k # peek'.which => peek'.offs[k] = peek.offs[k] ]_vars

\* two peeks at different offsets lie between drain calls that left the
\* instance cursor at a third position
C18_Witness ==
  /\ peek.op = "peekUint16"
  /\ peek.ret = MYSQL_SUCCESS
  /\ peek.offs[1] # peek.offs[2]
  /\ peek.offs[1] # 0
  /\ peek.offs[2] # 0
  /\ last.op = "BufUint8Drain"
  /\ last.ret = MYSQL_SUCCESS
  /\ offset_ \notin {peek.offs[1], peek.offs[2]}

----------------------------------------------------------------------------
(* The delay timer of the HTTP fault filter (fault_filter.cc).  filter is  *)
(* the FaultFilter instance together with a record of what it did to its   *)
(* stream: the callbacks made, the status last returned, the numbers of    *)
(* abortWithHTTPStatus, continueDecoding and postDelayInjection calls and  *)
(* the verdict of the destructor's assertion.                              *)

\* the durations the runtime snapshot may return, in ms
Durations == {0, 5}

\* absl::optional<uint64_t> as a sequence of at most one element
delayDuration(delay_enabled, duration) ==
  IF ~delay_enabled
    THEN <<>>
    ELSE IF duration > 0 THEN <<duration>> ELSE <<>>

resetTimerState(f) ==
  IF f.delay_timer_ # "null"
    THEN [f EXCEPT !.delay_timer_ = "null"]
    ELSE f

abortWithHTTPStatus(f) ==
  [f EXCEPT !.aborts = @ + 1,
            !.late = @ \/ f.stream_destroyed_]

continueDecoding(f) ==
  [f EXCEPT !.continues = @ + 1,
            !.late = @ \/ f.stream_destroyed_]

\* the else in front of continueDecoding is lost
postDelayInjection_AbortAndContinue(f, abort_enabled) ==
  LET g == resetTimerState(f)
  IN IF abort_enabled
       THEN continueDecoding(abortWithHTTPStatus(g))
       ELSE continueDecoding(g)

postDelayInjection(f, abort_enabled) ==
  LET g == resetTimerState(f)
  IN IF abort_enabled
       THEN abortWithHTTPStatus(g)
       ELSE continueDecoding(g)

\* matches: the upstream cluster, the downstream nodes and the headers all
\* match the configuration
decodeHeaders(f, matches, delay_enabled, duration, abort_enabled) ==
  LET duration_ms == delayDuration(delay_enabled, duration)
  IN IF ~matches
       THEN [f EXCEPT !.status = "Continue"]
       ELSE IF duration_ms # <<>>
         THEN [f EXCEPT !.delay_timer_ = "enabled",
                        !.status = "StopIteration"]
         ELSE IF abort_enabled
           THEN [abortWithHTTPStatus(f) EXCEPT !.status = "StopIteration"]
           ELSE [f EXCEPT !.status = "Continue"]

decodeData(f) ==
  IF f.delay_timer_ = "null"
    THEN [f EXCEPT !.status = "Continue"]
    ELSE [f EXCEPT !.status = "StopIterationAndWatermark"]

decodeTrailers(f) ==
  [f EXCEPT !.status = IF f.delay_timer_ = "null" THEN "Continue"
                                                   ELSE "StopIteration"]

\* the call of resetTimerState is lost
onDestroy_NoReset(f) ==
  [f EXCEPT !.stream_destroyed_ = TRUE]

onDestroy(f) ==
  [resetTimerState(f) EXCEPT !.stream_destroyed_ = TRUE]

\* ASSERT(!delay_timer_)
Destructor(f) ==
  [f EXCEPT !.assert = IF f.delay_timer_ = "null" THEN "held" ELSE "failed"]

\* the arguments of a decodeHeaders call not made yet
NoHeaders ==
  [matches |-> FALSE, delay_enabled |-> FALSE, duration |-> 0,
   abort_enabled |-> FALSE]

\* the filter after FaultFilter::FaultFilter
NewFilter ==
  [phase |-> "created", delay_timer_ |-> "null", stream_destroyed_ |-> FALSE,
   op |-> "FaultFilter", status |-> "", args |-> NoHeaders,
   headers |-> FALSE, data |-> 0, trailers |-> FALSE,
   aborts |-> 0, continues |-> 0, posts |-> 0, late |-> FALSE,
   assert |-> "none"]

InitFault ==
  /\ wire = <<>>
  /\ buffer = <<>>
  /\ offset_ = 0
  /\ last = NoCall
  /\ enc = NoEnc
  /\ peek = NoPeek
  /\ filter = NewFilter
  /\ resource = NoResource

\* the stream still makes decoder callbacks into the filter
Decoding == filter.phase = "created" /\ ~filter.stream_destroyed_

DoDecodeHeaders ==
  /\ Decoding
  /\ ~filter.headers
  /\ \E matches \in BOOLEAN, delay_enabled \in BOOLEAN,
        duration \in Durations, abort_enabled \in BOOLEAN :
       filter' = [decodeHeaders(filter, matches, delay_enabled, duration,
                                abort_enabled)
                    EXCEPT !.op = "decodeHeaders", !.headers = TRUE,
                           !.args = [matches |-> matches,
                                     delay_enabled |-> delay_enabled,
                                     duration |-> duration,
                                     abort_enabled |-> abort_enabled]]
  /\ UNCHANGED <<wire, buffer, offset_, last, enc, peek, resource>>

DoDecodeData ==
  /\ Decoding
  /\ filter.headers
  /\ ~filter.trailers
  /\ filter.data < MaxData
  /\ filter' = [decodeData(filter) EXCEPT !.op = "decodeData",
                                          !.data = @ + 1]
  /\ UNCHANGED <<wire, buffer, offset_, last, enc, peek, resource>>

DoDecodeTrailers ==
  /\ Decoding
  /\ filter.headers
  /\ ~filter.trailers
  /\ filter' = [decodeTrailers(filter) EXCEPT !.op = "decodeTrailers",
                                              !.trailers = TRUE]
  /\ UNCHANGED <<wire, buffer, offset_, last, enc, peek, resource>>

\* the dispatcher runs the callback of the enabled timer; the timer is
\* one-shot, so it is disabled when its callback starts
TimerFires ==
  /\ filter.phase = "created"
  /\ filter.delay_timer_ = "enabled"
  /\ \E abort_enabled \in BOOLEAN :
       filter' = [postDelayInjection([filter EXCEPT !.delay_timer_ = "disabled"],
                                     abort_enabled)
                    EXCEPT !.op = "postDelayInjection", !.posts = @ + 1]
  /\ UNCHANGED <<wire, buffer, offset_, last, enc, peek, resource>>

DoOnDestroy ==
  /\ filter.phase = "created"
  /\ ~filter.stream_destroyed_
  /\ filter' = [onDestroy(filter) EXCEPT !.op = "onDestroy"]
  /\ UNCHANGED <<wire, buffer, offset_, last, enc, peek, resource>>

DoDestructor ==
  /\ filter.phase = "created"
  /\ filter' = [Destructor(filter) EXCEPT !.op = "~FaultFilter",
                                          !.phase = "destructed"]
  /\ UNCHANGED <<wire, buffer, offset_, last, enc, peek, resource>>

NextFault ==
  \/ DoDecodeHeaders
  \/ DoDecodeData
  \/ DoDecodeTrailers
  \/ TimerFires
  \/ DoOnDestroy
  \/ DoDestructor

SpecFault == InitFault /\ [][NextFault]_vars

\* the step is a call of decodeHeaders / postDelayInjection / decodeData /
\* decodeTrailers / onDestroy / the destructor
HeadersStep == ~filter.headers /\ filter'.headers
PostStep == filter'.posts # filter.posts
DataStep == filter'.data # filter.data
TrailersStep == ~filter.trailers /\ filter'.trailers
DestroyStep == ~filter.stream_destroyed_ /\ filter'.stream_destroyed_
DestructorStep == filter.phase = "created" /\ filter'.phase = "destructed"

\* decodeHeaders was called with everything matching, the delay enabled and
\* a duration above 0
DelayInjected(f) ==
  /\ f.headers
  /\ f.args.matches
  /\ f.args.delay_enabled
  /\ f.args.duration > 0

(* C19: a decodeHeaders call that injects a delay arms the timer and       *)
(* returns StopIteration without aborting or continuing; after it aborts   *)
(* and continuations happen only in postDelayInjection; a                  *)
(* postDelayInjection call clears the timer and makes exactly one call of  *)
(* abortWithHTTPStatus or continueDecoding, and it is the only one of the  *)
(* request.                                                                *)
C19_DelayThenDecide ==
  [][ /\ (HeadersStep /\ DelayInjected(filter'))
        => /\ filter'.delay_timer_ = "enabled"
           /\ filter'.status = "StopIteration"
           /\ filter'.aborts = 0
           /\ filter'.continues = 0
      /\ (DelayInjected(filter) /\ ~PostStep)
        => /\ filter'.aborts = filter.aborts
           /\ filter'.continues = filter.continues
      /\ PostStep
        => /\ DelayInjected(filter)
           /\ filter.posts = 0
           /\ filter'.posts = 1
           /\ filter'.delay_timer_ = "null"
           /\ filter.aborts + filter.continues = 0
           /\ filter'.aborts + filter'.continues = 1 ]_vars

\* the timer fired after data arrived during the delay, and the request was
\* aborted
C19_Witness ==
  /\ DelayInjected(filter)
  /\ filter.op = "postDelayInjection"
  /\ filter.data > 0
  /\ filter.posts = 1
  /\ filter.aborts = 1
  /\ filter.continues = 0
  /\ filter.delay_timer_ = "null"

(* C20: onDestroy leaves no delay timer; after onDestroy there is no       *)
(* postDelayInjection, abortWithHTTPStatus or continueDecoding; a          *)
(* destructor that runs after onDestroy finds its assertion true; and      *)
(* decodeData and decodeTrailers return Continue exactly when no timer     *)
(* exists and a stop status otherwise.                                     *)
C20_AfterDestroy ==
  [][ /\ DestroyStep => filter'.delay_timer_ = "null"
      /\ filter.stream_destroyed_
        => /\ filter'.posts = filter.posts
           /\ filter'.aborts = filter.aborts
           /\ filter'.continues = filter.continues
           /\ filter'.delay_timer_ = "null"
           /\ ~filter'.late
      /\ (DestructorStep /\ filter.stream_destroyed_)
        => filter'.assert = "held"
      /\ DataStep
        => filter'.status = IF filter.delay_timer_ = "null"
                              THEN "Continue"
                              ELSE "StopIterationAndWatermark"
      /\ TrailersStep
        => filter'.status = IF filter.delay_timer_ = "null"
                              THEN "Continue"
                              ELSE "StopIteration" ]_vars

\* onDestroy cancelled an armed timer that had stopped data, and the
\* destructor ran afterwards
C20_Witness ==
  /\ DelayInjected(filter)
  /\ filter.data > 0
  /\ filter.status = "StopIterationAndWatermark"
  /\ filter.stream_destroyed_
  /\ filter.phase = "destructed"
  /\ filter.assert = "held"
  /\ filter.posts = 0
  /\ filter.aborts + filter.continues = 0

----------------------------------------------------------------------------
(* One ResourceImpl of the resource manager (resource_manager_impl.h),     *)
(* used by Workers worker threads.  current_ is a std::atomic, so          *)
(* current_++, current_-- and each load are single steps; inc() and dec()  *)
(* are three steps each: the update of current_, the load in canCreate()   *)
(* and the store into the gauge.  pc[t] is the position of thread t,       *)
(* ok[t] the result of its most recent canCreate() call, held[t] the       *)
(* number of inc() calls of t not yet undone by a dec().                   *)

\* the values max() returns; the runtime snapshot does not change
Maxes == {1, 2}

Threads == 1..Workers

canCreate_AtMost(current, max) == current <= max

canCreate(current, max) == current < max

\* the value inc() and dec() store into open_gauge_
OpenGauge(can_create) == IF can_create THEN 0 ELSE 1

InitRes ==
  /\ wire = <<>>
  /\ buffer = <<>>
  /\ offset_ = 0
  /\ last = NoCall
  /\ enc = NoEnc
  /\ peek = NoPeek
  /\ filter = NoFilter
  /\ \E max \in Maxes, guarded \in BOOLEAN :
       resource = [phase |-> "live", guarded |-> guarded, max_ |-> max,
                   current_ |-> 0, open_gauge_ |-> 0,
                   pc |-> [t \in Threads |-> "idle"],
                   ok |-> [t \in Threads |-> FALSE],
                   held |-> [t \in Threads |-> 0]]

\* thread t moves to position p; the rest of vars stays
Step(t, p, r) ==
  /\ resource' = [r EXCEPT !.pc[t] = p]
  /\ UNCHANGED <<wire, buffer, offset_, last, enc, peek, filter>>

\* t asks canCreate() before it takes the resource
CallCanCreate(t) ==
  /\ resource.pc[t] = "idle"
  /\ resource.held[t] < MaxHeld
  /\ canCreate(resource.current_, resource.max_)
  /\ Step(t, "can_create", [resource EXCEPT !.ok[t] = TRUE])

\* canCreate() returned false: t does not take the resource
CanCreateRefused(t) ==
  /\ resource.pc[t] = "idle"
  /\ ~canCreate(resource.current_, resource.max_)
  /\ Step(t, "idle", [resource EXCEPT !.ok[t] = FALSE])

\* inc(): current_++, by a thread that was told it can create
IncCurrent(t) ==
  /\ resource.pc[t] = "can_create"
  /\ Step(t, "inc_load", [resource EXCEPT !.current_ = @ + 1])

\* inc(): current_++, by a thread that did not ask
IncCurrentUnasked(t) ==
  /\ ~resource.guarded
  /\ resource.pc[t] = "idle"
  /\ resource.held[t] < MaxHeld
  /\ Step(t, "inc_load", [resource EXCEPT !.current_ = @ + 1])

\* inc(): canCreate()
IncCanCreate(t) ==
  /\ resource.pc[t] = "inc_load"
  /\ Step(t, "inc_set",
          [resource EXCEPT !.ok[t] = canCreate(resource.current_,
                                               resource.max_)])

\* inc(): open_gauge_.set(...)
IncSetGauge(t) ==
  /\ resource.pc[t] = "inc_set"
  /\ Step(t, "idle",
          [resource EXCEPT !.open_gauge_ = OpenGauge(resource.ok[t]),
                           !.held[t] = @ + 1])

\* dec(): current_--, by a thread that holds the resource
DecCurrent(t) ==
  /\ resource.pc[t] = "idle"
  /\ resource.held[t] > 0
  /\ Step(t, "dec_load", [resource EXCEPT !.current_ = @ - 1,
                                          !.held[t] = @ - 1])

\* dec(): canCreate()
DecCanCreate(t) ==
  /\ resource.pc[t] = "dec_load"
  /\ Step(t, "dec_set",
          [resource EXCEPT !.ok[t] = canCreate(resource.current_,
                                               resource.max_)])

\* dec(): open_gauge_.set(...)
DecSetGauge(t) ==
  /\ resource.pc[t] = "dec_set"
  /\ Step(t, "idle",
          [resource EXCEPT !.open_gauge_ = OpenGauge(resource.ok[t])])

NextRes ==
  \/ \E t \in Threads : CallCanCreate(t)
  \/ \E t \in Threads : CanCreateRefused(t)
  \/ \E t \in Threads : IncCurrent(t)
  \/ \E t \in Threads : IncCurrentUnasked(t)
  \/ \E t \in Threads : IncCanCreate(t)
  \/ \E t \in Threads : IncSetGauge(t)
  \/ \E t \in Threads : DecCurrent(t)
  \/ \E t \in Threads : DecCanCreate(t)
  \/ \E t \in Threads : DecSetGauge(t)

SpecRes == InitRes /\ [][NextRes]_vars

\* no inc() or dec() call is in progress
Quiescent ==
  \A t \in Threads : resource.pc[t] \in {"idle", "can_create"}

(* C21: whenever no inc() or dec() call is in progress, the gauge is 1 if  *)
(* current_ >= max and 0 otherwise.                                        *)
C21_GaugeLive ==
  Quiescent =>
    resource.open_gauge_ = (IF resource.current_ >= resource.max_ THEN 1 ELSE 0)

(* C22: when every thread calls inc() only after canCreate() returned      *)
(* true, current_ can be above max, by less than the number of threads.    *)
C22_Overshoot ==
  resource.guarded => resource.current_ <= resource.max_ + Workers - 1

\* two threads were both told they can create and both incremented
C22_Witness ==
  /\ resource.guarded
  /\ resource.current_ > resource.max_
  /\ \E t, u \in Threads :
       /\ t # u
       /\ resource.pc[t] = "inc_load"
       /\ resource.pc[u] = "inc_load"

====
